---------------------------- MODULE Spec2Model ----------------------------
(***************************************************************************)
(* Model of flask_docker/app.py: the /upload_and_match request handler.    *)
(*                                                                         *)
(* Strings are sequences of one-character strings, so that lower(),        *)
(* endswith() and os.path.join() are computed and not assumed.  A file     *)
(* system maps resolved paths to inodes and inodes to contents.  Face      *)
(* encodings are points on a line and distances are integers in units of   *)
(* 0.00002 (1.0 is 50000, 0.4 is 20000): a confidence then never lies      *)
(* half-way between two hundredths of a percent.                           *)
(***************************************************************************)
EXTENDS Integers, Sequences, FiniteSets, TLC

\* ------------------------------------------------------------------ bounds
MaxEntries == 3     \* longest json_data array of well-formed entries
MaxFaces == 2       \* most faces in an uploaded image
MaxAttempts == 2    \* submissions of one request that fails validation

\* --------------------------------------------------------------- constants
tolerance == 25000
distance_threshold == 20000
One == 50000

Procs == {1, 2}

\* ------------------------------------------------------------------ strings
UpperChars == <<"A", "B", "C", "D", "E", "F", "G", "H", "I", "J", "K", "L", "M",
                "N", "O", "P", "Q", "R", "S", "T", "U", "V", "W", "X", "Y", "Z">>
LowerChars == <<"a", "b", "c", "d", "e", "f", "g", "h", "i", "j", "k", "l", "m",
                "n", "o", "p", "q", "r", "s", "t", "u", "v", "w", "x", "y", "z">>

LowerChar(c) ==
    IF \E i \in 1..26 : UpperChars[i] = c
    THEN LowerChars[CHOOSE i \in 1..26 : UpperChars[i] = c]
    ELSE c

\* str.lower()
Lower(s) == [i \in 1..Len(s) |-> LowerChar(s[i])]

\* str.endswith(suffix)
EndsWith(s, suf) ==
    /\ Len(s) >= Len(suf)
    /\ SubSeq(s, Len(s) - Len(suf) + 1, Len(s)) = suf

ImageSuffixes == { <<".", "j", "p", "g">>, <<".", "j", "p", "e", "g">>,
                   <<".", "p", "n", "g">> }

\* file.filename.lower().endswith(('.jpg', '.jpeg', '.png'))
HasImageExt(filename) == \E suf \in ImageSuffixes : EndsWith(Lower(filename), suf)

\* -------------------------------------------------------------------- paths
BASE_DIR == <<"/", "a", "p", "p">>

IsAbs(s) == Len(s) > 0 /\ s[1] = "/"

\* os.path.join(a, b) for a directory a without a trailing slash
PathJoin(a, b) == IF IsAbs(b) THEN b ELSE a \o <<"/">> \o b

BULK_FOLDER == PathJoin(BASE_DIR, <<"b", "u", "l", "k">>)
SINGLE_FOLDER == PathJoin(BASE_DIR, <<"s", "i", "n", "g", "l", "e">>)
PROCESSED_FOLDER == PathJoin(BASE_DIR, <<"p", "r", "o", "c", "e", "s", "s", "e", "d">>)

\* The components of a path string: the pieces between slashes.
RECURSIVE SplitFrom(_, _, _, _)
SplitFrom(s, k, cur, acc) ==
    IF k > Len(s) THEN Append(acc, cur)
    ELSE IF s[k] = "/" THEN SplitFrom(s, k + 1, <<>>, Append(acc, cur))
    ELSE SplitFrom(s, k + 1, Append(cur, s[k]), acc)

Split(s) == SplitFrom(s, 1, <<>>, <<>>)

D_app == <<"a", "p", "p">>
D_bulk == <<"b", "u", "l", "k">>
D_single == <<"s", "i", "n", "g", "l", "e">>
D_processed == <<"p", "r", "o", "c", "e", "s", "s", "e", "d">>
D_sub == <<"s", "u", "b">>
D_tmp == <<"t", "m", "p">>

\* The directories that exist: the three folders made at start-up, and what
\* the host holds besides (/tmp, and a subdirectory of single/).
Dirs == { <<>>, <<D_app>>, <<D_app, D_bulk>>, <<D_app, D_single>>,
          <<D_app, D_processed>>, <<D_app, D_single, D_sub>>, <<D_tmp>> }

\* The kernel's walk of an absolute path: "" and "." are skipped, ".." goes to
\* the parent, every component before the last must be an existing directory.
RECURSIVE Walk(_, _, _)
Walk(comps, k, at) ==
    IF k > Len(comps) THEN [ok |-> TRUE, path |-> at]
    ELSE IF at \notin Dirs THEN [ok |-> FALSE, path |-> at]
    ELSE IF comps[k] = <<>> \/ comps[k] = <<".">> THEN Walk(comps, k + 1, at)
    ELSE IF comps[k] = <<".", ".">>
         THEN Walk(comps, k + 1, IF at = <<>> THEN at ELSE SubSeq(at, 1, Len(at) - 1))
    ELSE Walk(comps, k + 1, Append(at, comps[k]))

Resolve(s) == Walk(Split(s), 1, <<>>)

\* A path that can name a regular file: it resolves and is not a directory.
FilePath(s) == Resolve(s).ok /\ Resolve(s).path \notin Dirs

\* --------------------------------------------------------------- json_data
\* A JSON value: t is its type; n is the size of a string or of a top-level
\* object; items are the elements of an array.  An element that is an object
\* has the keys in has, with the values name and id.
N_a == <<"a", ".", "j", "p", "g">>
N_b == <<"b", ".", "j", "p", "g">>

Item(t, has, name, id) == [t |-> t, has |-> has, name |-> name, id |-> id]
Entry(name, id) == Item("obj", {"name", "id"}, name, id)
NoName == Item("obj", {"id"}, <<>>, 7)
NoId == Item("obj", {"name"}, N_a, 0)
NumItem == Item("num", {}, <<>>, 0)
StrItem == Item("str", {}, <<>>, 0)
ListItem == Item("arr", {}, <<>>, 0)

Json(t, n, items) == [t |-> t, n |-> n, items |-> items]
Arr(items) == Json("arr", Len(items), items)

\* A faulty dict: an existing key keeps the value it has.
DictSet_KeepsFirst(map, name, id) ==
    IF \E i \in 1..Len(map) : map[i].name = name
    THEN map
    ELSE Append(map, [name |-> name, id |-> id])

\* dict[name] = id: an existing key keeps its position and takes the new value.
DictSet(map, name, id) ==
    IF \E i \in 1..Len(map) : map[i].name = name
    THEN [i \in 1..Len(map) |->
            IF map[i].name = name THEN [name |-> name, id |-> id] ELSE map[i]]
    ELSE Append(map, [name |-> name, id |-> id])

\* {item['name']: item['id'] for item in photo_data}, element by element: the
\* first element that cannot be subscripted, or lacks a key, raises.
RECURSIVE Collect(_, _, _)
Collect(items, k, map) ==
    IF k > Len(items) THEN [exc |-> "none", map |-> map]
    ELSE IF items[k].t # "obj" THEN [exc |-> "TypeError", map |-> <<>>]
    ELSE IF "name" \notin items[k].has THEN [exc |-> "KeyError", map |-> <<>>]
    ELSE IF "id" \notin items[k].has THEN [exc |-> "KeyError", map |-> <<>>]
    ELSE Collect(items, k + 1, DictSet(map, items[k].name, items[k].id))

\* json.loads followed by the dict comprehension.
ParseSelected(j) ==
    CASE j.t = "bad" -> [exc |-> "JSONDecodeError", map |-> <<>>]
      [] j.t \in {"num", "null", "bool"} -> [exc |-> "TypeError", map |-> <<>>]
      [] j.t \in {"str", "obj"} ->
            IF j.n = 0 THEN [exc |-> "none", map |-> <<>>]
            ELSE [exc |-> "TypeError", map |-> <<>>]
      [] OTHER -> Collect(j.items, 1, <<>>)

\* ---------------------------------------------------------------- responses
\* body is the text of 'error' or 'message', as the pieces it is put together
\* from: the string is their concatenation.
NoResp == [status |-> 0, body |-> <<>>, has_matches |-> FALSE, matches |-> <<>>,
           uploaded_file |-> <<>>]

Err(status, text) == [NoResp EXCEPT !.status = status, !.body = <<text>>]

\* jsonify({"error": f"<text>: {str(e)}"}), 500
ErrWith(text, e) == [NoResp EXCEPT !.status = 500, !.body = <<text, ": ">> \o e]

E_required == "File and JSON data are required"
E_nofile == "No selected file"
E_type == "Invalid file type. Only .jpg, .jpeg, and .png are allowed."
E_json == "Invalid JSON data. Each entry must include 'name' and 'id' fields."
E_save == "Failed to save uploaded file"
E_process == "Failed to process the uploaded image"
E_noface == "No face detected in the uploaded image"
E_move == "Failed to move processed image"
\* an exception no handler of the view catches: the framework answers 500
E_unhandled == "Internal Server Error"

\* Lines 40-62: the checks before anything is written, in order.  A request
\* that passes has status 0 and the mapping.
Validation(r) ==
    LET parsed == ParseSelected(r.json) IN
    IF ~r.hasFile \/ ~r.hasJson THEN [resp |-> Err(400, E_required), map |-> <<>>]
    ELSE IF r.filename = <<>> THEN [resp |-> Err(400, E_nofile), map |-> <<>>]
    ELSE IF ~HasImageExt(r.filename) THEN [resp |-> Err(400, E_type), map |-> <<>>]
    ELSE IF parsed.exc \in {"JSONDecodeError", "KeyError"}
         THEN [resp |-> Err(400, E_json), map |-> <<>>]
    ELSE IF parsed.exc # "none" THEN [resp |-> Err(500, E_unhandled), map |-> <<>>]
    ELSE [resp |-> NoResp, map |-> parsed.map]

SinglePath(r) == PathJoin(SINGLE_FOLDER, r.filename)
ProcessedPath(r) == PathJoin(PROCESSED_FOLDER, r.filename)
BulkPath(name) == PathJoin(BULK_FOLDER, name)

\* ------------------------------------------------------------------- images
\* A file's bytes: who they are (id), whether they decode as an image, and the
\* encodings of the faces in it, in detection order.
Img(id, faces) == [id |-> id, ok |-> TRUE, faces |-> faces]
Corrupt(id) == [id |-> id, ok |-> FALSE, faces |-> <<>>]
Truncated == Corrupt("empty")

\* Bytes of two uploads in one file: they do not decode, or they decode (one
\* upload followed by the tail of a longer one, or pieces of both) and show
\* the faces given.
Garbled == Corrupt("mixed")
Mixed(faces) == Img("mixed", faces)

Abs(x) == IF x < 0 THEN -x ELSE x
Max(a, b) == IF a >= b THEN a ELSE b

\* face_recognition.face_distance([known], face)[0]
FaceDistance(known, face) == Abs(known - face)

\* face_recognition.compare_faces([known], face, tolerance)[0]
CompareFaces(known, face, tol) == FaceDistance(known, face) <= tol

\* A faulty test: the library's boolean alone decides.
IsMatch_ToleranceOnly(known, face) == CompareFaces(known, face, tolerance)

\* match[0] and distance < distance_threshold
IsMatch(known, face) ==
    /\ CompareFaces(known, face, tolerance)
    /\ FaceDistance(known, face) < distance_threshold

\* A faulty confidence: a fraction of one, not a percentage.
Confidence_Fraction(distance) == Max(0, One - distance)

\* max(0, (1.0 - distance)) * 100, in units of 0.00002 percent
Confidence(distance) == Max(0, One - distance) * 100

\* b^n mod m
RECURSIVE PowMod(_, _, _)
PowMod(b, n, m) == IF n = 0 THEN 1 % m ELSE (b * PowMod(b, n - 1, m)) % m

\* The binary exponent of c / 1000, c > 0: the k with
\* 2^k <= c / 1000 < 2^(k + 1).
RECURSIVE BinaryExponent(_)
BinaryExponent(c) ==
    IF c >= 2000 THEN BinaryExponent(c \div 2) + 1
    ELSE IF c < 1000 THEN BinaryExponent(2 * c) - 1
    ELSE 0

\* f"{confidence:.2f} %": the float rounded to hundredths, as its whole part
\* and its two decimals.  c is the value in units of 0.00002.  It is the
\* float that is rounded: a value half-way between two hundredths goes up
\* when the double next to it lies above it and down when it lies below, half
\* to even when it is a double itself.  With a mantissa of 53 bits the double
\* next to t / 1000 is m / 2^n, n = 52 - k, m the integer next to
\* t * 2^n / 1000; rem says on which side of it.  (No distance of this
\* resolution gives a half-way value, so the float that
\* max(0, 1.0 - distance) * 100 leaves, a few ulps from the value, rounds as
\* the value does.)
Format2(c) ==
    LET q == One \div 100
        base == c \div q
        r == c % q
        t == c \div (One \div 1000)
        rem == ((t % 1000) * PowMod(2, 52 - BinaryExponent(t), 1000)) % 1000
        up == IF 2 * r # q THEN 2 * r > q
              ELSE rem > 500 \/ (rem = 0 /\ base % 2 = 1)
        h == IF up THEN base + 1 ELSE base
    IN [whole |-> h \div 100, frac |-> h % 100, unit |-> " %"]

MatchResult(i, j, name, id, distance) ==
    [uploaded_face_index |-> i - 1,
     matched_face_index_in_bulk |-> j - 1,
     matched_file |-> name,
     matched_id |-> id,
     confidence |-> Format2(Confidence(distance)),
     face_distance |-> distance]

\* Lines 107-122 for one bulk image: uploaded faces outside, bulk faces inside.
RECURSIVE ComparePairs(_, _, _, _, _, _, _)
ComparePairs(single, bulk, name, id, i, j, acc) ==
    IF i > Len(single) THEN acc
    ELSE IF j > Len(bulk) THEN ComparePairs(single, bulk, name, id, i + 1, 1, acc)
    ELSE ComparePairs(single, bulk, name, id, i, j + 1,
            IF IsMatch(bulk[j], single[i])
            THEN Append(acc, MatchResult(i, j, name, id,
                                         FaceDistance(bulk[j], single[i])))
            ELSE acc)

\* ------------------------------------------------------------ request inputs
F_a == <<"a", ".", "j", "p", "g">>
F_upper == <<"B", ".", "J", "P", "G">>
F_jpeg == <<"c", ".", "j", "p", "e", "g">>
F_png == <<".", "p", "n", "g">>
F_txt == <<"a", ".", "t", "x", "t">>
F_noext == <<"j", "p", "g">>
F_trav_bulk == <<".", ".", "/", "b", "u", "l", "k", "/", "a", ".", "j", "p", "g">>
F_abs_bulk == <<"/", "a", "p", "p", "/", "b", "u", "l", "k", "/", "b", ".", "j", "p", "g">>
F_trav_single == <<".", ".", "/", "s", "i", "n", "g", "l", "e", "/", "a", ".", "j", "p", "g">>
F_trav_processed == <<".", ".", "/", "p", "r", "o", "c", "e", "s", "s", "e", "d", "/", "a", ".", "j", "p", "g">>
F_abs_tmp == <<"/", "t", "m", "p", "/", "x", ".", "p", "n", "g">>
F_sub == <<"s", "u", "b", "/", "a", ".", "j", "p", "g">>
F_nodir == <<"n", "o", "/", "a", ".", "j", "p", "g">>
F_under == <<"a", ".", "j", "p", "g", "/", "b", ".", "j", "p", "g">>
F_empty == <<>>

PlainNames == {F_a, F_upper, F_jpeg, F_png}
PathNames == {F_trav_bulk, F_abs_bulk, F_trav_single, F_trav_processed,
              F_abs_tmp, F_sub, F_nodir, F_under}
RejectedNames == {F_txt, F_noext, F_empty}
Filenames == PlainNames \cup PathNames \cup RejectedNames

\* The entries a well-formed json_data array is made of: a.jpg twice, with
\* different ids, and b.jpg.
EntryPool == {Entry(N_a, 1), Entry(N_b, 2), Entry(N_a, 3)}

RECURSIVE SeqsUpTo(_, _)
SeqsUpTo(S, n) ==
    IF n = 0 THEN {<<>>}
    ELSE LET shorter == SeqsUpTo(S, n - 1)
         IN shorter \cup {Append(q, x) : q \in {t \in shorter : Len(t) = n - 1}, x \in S}

WellFormedJson == {Arr(items) : items \in SeqsUpTo(EntryPool, MaxEntries)}

MalformedJson ==
    { Json("bad", 0, <<>>), Json("num", 0, <<>>), Json("null", 0, <<>>),
      Json("bool", 0, <<>>), Json("str", 2, <<>>), Json("str", 0, <<>>),
      Json("obj", 1, <<>>), Json("obj", 0, <<>>),
      Arr(<<NumItem>>), Arr(<<StrItem>>), Arr(<<ListItem>>),
      Arr(<<NoName>>), Arr(<<NoId>>),
      Arr(<<Entry(N_a, 1), NoId>>), Arr(<<Entry(N_a, 1), NumItem>>),
      Arr(<<NoName, NumItem>>), Arr(<<NumItem, NoId>>) }

\* Encodings of the faces of uploaded images: 0.0 and 0.1.
UploadEnc == {0, 5000}
UploadImages == {Img("up", f) : f \in SeqsUpTo(UploadEnc, MaxFaces)} \cup {Corrupt("up")}

Req(hasFile, hasJson, filename, json, bytes) ==
    [hasFile |-> hasFile, hasJson |-> hasJson, filename |-> filename,
     json |-> json, bytes |-> bytes]

NoReq == Req(FALSE, FALSE, <<>>, Json("bad", 0, <<>>), Corrupt("none"))

\* Where a file of a folder lives.
At(folder, name) == Resolve(PathJoin(folder, name)).path

\* What the folders hold when a request arrives: <<path, bytes>> pairs.  The
\* bulk faces lie at 0.3, 0.5 and 0.601 (distances 0.2, 0.3, 0.4, 0.5, 0.501
\* and 0.601 from the uploaded faces); in the last folder one image shows
\* three faces, at 0.3, 0.39996 and 0.4, and the other faces at 0.24692 and
\* 0.5.
Envs ==
    { <<>>,
      << <<At(BULK_FOLDER, N_a), Img("bulk_a", <<15000>>)>> >>,
      << <<At(BULK_FOLDER, N_a), Img("bulk_a", <<15000, 25000>>)>>,
         <<At(BULK_FOLDER, N_b), Img("bulk_b", <<30050, 15000>>)>>,
         <<At(PROCESSED_FOLDER, F_a), Img("old", <<0>>)>> >>,
      << <<At(BULK_FOLDER, N_a), Corrupt("bulk_a")>>,
         <<At(BULK_FOLDER, N_b), Img("bulk_b", <<25000>>)>>,
         <<At(SINGLE_FOLDER, F_a), Img("old", <<0>>)>> >>,
      << <<At(BULK_FOLDER, N_a), Img("bulk_a", <<>>)>>,
         <<At(BULK_FOLDER, N_b), Img("bulk_b", <<15000>>)>> >>,
      << <<At(BULK_FOLDER, N_a), Img("bulk_a", <<15000, 19998, 20000>>)>>,
         <<At(BULK_FOLDER, N_b), Img("bulk_b", <<12346, 25000>>)>> >> }

CoreJson == {Arr(<<>>), Arr(<<Entry(N_a, 1), Entry(N_b, 2)>>)}
CoreImages == {Img("up", <<>>), Img("up", <<5000>>), Corrupt("up")}

\* The requests and folders a single request is checked on: every kind of
\* request part against one image, every mapping and image under a plain
\* filename, and every filename against a few mappings and images.
Scenarios ==
    {[req |-> Req(hf, hj, fn, j, Img("up", <<5000>>)), env |-> <<>>] :
        hf \in BOOLEAN, hj \in BOOLEAN, fn \in Filenames,
        j \in MalformedJson \cup CoreJson}
    \cup
    {[req |-> Req(TRUE, TRUE, F_a, j, img), env |-> e] :
        j \in WellFormedJson, img \in UploadImages, e \in Envs}
    \cup
    {[req |-> Req(TRUE, TRUE, fn, j, img), env |-> e] :
        fn \in Filenames, j \in CoreJson, img \in CoreImages, e \in Envs}

\* -------------------------------------------------------------------- state
VARIABLES
    pc,                 \* where each request is in the handler
    req,                \* each request's parts
    selected,           \* selected_photos: <<[name, id]>> in insertion order
    idx,                \* position of the candidate loop in selected
    single_encodings,   \* encodings of the uploaded image
    results,            \* results
    resp,               \* the response
    fd,                 \* the inode file.save() has open
    clash,              \* another writer had that inode open since it was opened
    names,              \* the directory entries: path -> inode
    data,               \* inode -> bytes
    fs0,                \* the folders' contents when the request arrived
    examined,           \* the bulk names loaded, in order
    loaded,             \* the id of the bytes the handler decoded as its upload
    moves,              \* how often shutil.move was called
    written,            \* the paths the handler created, replaced or removed
    saved,              \* the requests in the order their save completed
    overlap,            \* two requests were in flight at once
    attempt,            \* how often the request was submitted
    prevResp            \* the response to the previous submission

vars == <<pc, req, selected, idx, single_encodings, results, resp, fd, clash,
          names, data, fs0, examined, loaded, moves, written, saved, overlap,
          attempt, prevResp>>

\* path -> bytes
View == [x \in DOMAIN names |-> data[names[x]]]

NamesOf(env) == [x \in {env[i][1] : i \in 1..Len(env)} |->
                    CHOOSE i \in 1..Len(env) : env[i][1] = x]
DataOf(env) == [i \in 1..Len(env) |-> env[i][2]]

InitWith(reqs, env, started) ==
    /\ req = reqs
    /\ pc = [p \in Procs |-> IF p \in started THEN "start" ELSE "off"]
    /\ selected = [p \in Procs |-> <<>>]
    /\ idx = [p \in Procs |-> 0]
    /\ single_encodings = [p \in Procs |-> <<>>]
    /\ results = [p \in Procs |-> <<>>]
    /\ resp = [p \in Procs |-> NoResp]
    /\ fd = [p \in Procs |-> 0]
    /\ clash = [p \in Procs |-> FALSE]
    /\ names = NamesOf(env)
    /\ data = DataOf(env)
    /\ fs0 = [x \in DOMAIN NamesOf(env) |-> DataOf(env)[NamesOf(env)[x]]]
    /\ examined = [p \in Procs |-> <<>>]
    /\ loaded = [p \in Procs |-> "none"]
    /\ moves = [p \in Procs |-> 0]
    /\ written = {}
    /\ saved = <<>>
    /\ overlap = FALSE
    /\ attempt = 1
    /\ prevResp = NoResp

Init == \E sc \in Scenarios :
    InitWith([p \in Procs |-> IF p = 1 THEN sc.req ELSE NoReq], sc.env, {1})

\* --------------------------------------------------------------- file system
\* os.path.exists(path)
Exists(path) ==
    /\ Resolve(path).ok
    /\ Resolve(path).path \in DOMAIN names \cup Dirs

\* The path names a regular file that is there.
IsFile(path) == Resolve(path).ok /\ Resolve(path).path \in DOMAIN names

Content(path) == data[names[Resolve(path).path]]

ENOENT == "[Errno 2] No such file or directory"
ENOTDIR == "[Errno 20] Not a directory"
EISDIR == "[Errno 21] Is a directory"

\* str(e) of the OSError that opening path raises: a component that should be
\* a directory is a file, or is not there; the path is a directory; or the
\* file is not there.  The text names the path as it was given.
OsError(path) ==
    LET r == Resolve(path)
        what == IF ~r.ok
                THEN IF r.path \in DOMAIN names THEN ENOTDIR ELSE ENOENT
                ELSE IF r.path \in Dirs THEN EISDIR ELSE ENOENT
    IN <<what, ": '">> \o path \o <<"'">>

\* str(e) of what load_image_file raises: the file cannot be opened, or its
\* bytes are no image.
ImageError(path) ==
    IF IsFile(path) THEN <<"cannot identify image file '">> \o path \o <<"'">>
    ELSE OsError(path)

\* str(e) of what shutil.move raises: os.rename fails, and the copy it falls
\* back to fails on opening src, or else on opening dst.
MoveError(src, dst) == IF ~IsFile(src) THEN OsError(src) ELSE OsError(dst)

\* face_recognition.load_image_file + face_encodings: raises unless the path
\* is a file that decodes.
Loads(path) == IsFile(path) /\ Content(path).ok

\* shutil.move(src, dst): os.rename, which replaces dst, removes src, and does
\* nothing when both name the same file.  It raises when src is not there or
\* the directory of dst is not.  (dst is never an existing directory here: no
\* directory has an image suffix.)
MoveFails(src, dst) == ~IsFile(src) \/ ~FilePath(dst)

\* A faulty move: a file already at dst is kept, src is only removed.
NamesAfterMove_KeepsOld(src, dst) ==
    LET s == Resolve(src).path
        d == Resolve(dst).path
    IN IF s = d THEN names
       ELSE IF d \in DOMAIN names THEN [x \in DOMAIN names \ {s} |-> names[x]]
       ELSE [x \in (DOMAIN names \ {s}) \cup {d} |->
                IF x = d THEN names[s] ELSE names[x]]

NamesAfterMove(src, dst) ==
    LET s == Resolve(src).path
        d == Resolve(dst).path
    IN IF s = d THEN names
       ELSE [x \in (DOMAIN names \ {s}) \cup {d} |->
                IF x = d THEN names[s] ELSE names[x]]

\* ------------------------------------------------------------------ handler
InFlight(q) == pc[q] \notin {"start", "done", "off"}

Step(p) ==
    overlap' = (overlap \/ \E q \in Procs \ {p} : InFlight(q))

Finish(p, r) ==
    /\ resp' = [resp EXCEPT ![p] = r]
    /\ pc' = [pc EXCEPT ![p] = "done"]

\* Lines 40-62.
Validate(p) ==
    /\ pc[p] = "start"
    /\ Step(p)
    /\ LET v == Validation(req[p]) IN
       IF v.resp.status # 0
       THEN Finish(p, v.resp) /\ UNCHANGED selected
       ELSE /\ selected' = [selected EXCEPT ![p] = v.map]
            /\ pc' = [pc EXCEPT ![p] = "save"]
            /\ UNCHANGED resp
    /\ UNCHANGED <<req, idx, single_encodings, results, fd, clash, names, data,
                   fs0, examined, loaded, moves, written, saved, attempt, prevResp>>

\* Lines 65-71, first half: file.save() opens single/<filename> for writing,
\* which empties an existing file or makes a new one.
SaveOpen(p) ==
    /\ pc[p] = "save"
    /\ Step(p)
    /\ LET path == SinglePath(req[p])
           at == Resolve(path).path
       IN
       IF ~FilePath(path)
       THEN /\ Finish(p, ErrWith(E_save, OsError(path)))
            /\ UNCHANGED <<fd, clash, names, data, written>>
       ELSE LET ino == IF at \in DOMAIN names THEN names[at] ELSE Len(data) + 1 IN
            /\ names' = [x \in DOMAIN names \cup {at} |-> IF x = at THEN ino ELSE names[x]]
            /\ data' = [i \in 1..Max(Len(data), ino) |-> IF i = ino THEN Truncated ELSE data[i]]
            /\ fd' = [fd EXCEPT ![p] = ino]
            /\ clash' = [q \in Procs |->
                            IF q = p
                            THEN \E o \in Procs \ {p} : pc[o] = "write" /\ fd[o] = ino
                            ELSE clash[q] \/ (pc[q] = "write" /\ fd[q] = ino)]
            /\ written' = written \cup {at}
            /\ pc' = [pc EXCEPT ![p] = "write"]
            /\ UNCHANGED resp
    /\ UNCHANGED <<req, selected, idx, single_encodings, results, fs0, examined,
                   loaded, moves, saved, attempt, prevResp>>

\* What two writers of one inode may leave in it.
Mixtures ==
    {Garbled} \cup {Mixed(f) : f \in {req[q].bytes.faces : q \in Procs} \cup {<<>>}}

\* Lines 65-71, second half: the bytes are written through the open file, each
\* writer at its own offset.  When another writer had the inode open
\* meanwhile, the file ends with this upload's bytes or with a mixture.
SaveWrite(p) ==
    /\ pc[p] = "write"
    /\ Step(p)
    /\ \E bytes \in (IF clash[p] THEN {req[p].bytes} \cup Mixtures ELSE {req[p].bytes}) :
          data' = [data EXCEPT ![fd[p]] = bytes]
    /\ clash' = [q \in Procs |->
                    IF q = p THEN clash[q]
                    ELSE clash[q] \/ (pc[q] = "write" /\ fd[q] = fd[p])]
    /\ saved' = Append(saved, p)
    /\ pc' = [pc EXCEPT ![p] = "encode"]
    /\ UNCHANGED <<req, selected, idx, single_encodings, results, resp, fd, names,
                   fs0, examined, loaded, moves, written, attempt, prevResp>>

\* Lines 74-83.
Encode(p) ==
    /\ pc[p] = "encode"
    /\ Step(p)
    /\ LET path == SinglePath(req[p]) IN
       IF ~Loads(path)
       THEN /\ Finish(p, ErrWith(E_process, ImageError(path)))
            /\ UNCHANGED <<single_encodings, idx, loaded>>
       ELSE /\ loaded' = [loaded EXCEPT ![p] = Content(path).id]
            /\ IF Content(path).faces = <<>>
               THEN /\ Finish(p, Err(400, E_noface))
                    /\ UNCHANGED <<single_encodings, idx>>
               ELSE /\ single_encodings' = [single_encodings EXCEPT ![p] = Content(path).faces]
                    /\ idx' = [idx EXCEPT ![p] = 1]
                    /\ pc' = [pc EXCEPT ![p] = IF selected[p] = <<>> THEN "move" ELSE "loop"]
                    /\ UNCHANGED resp
    /\ UNCHANGED <<req, selected, results, fd, clash, names, data, fs0, examined,
                   moves, written, saved, attempt, prevResp>>

\* Lines 91-122 for one candidate: what results is after it.
CandidateResults(single, entry, acc) ==
    LET path == BulkPath(entry.name) IN
    IF ~Exists(path) THEN acc
    ELSE IF ~Loads(path) THEN acc
    ELSE IF Content(path).faces = <<>> THEN acc
    ELSE ComparePairs(single, Content(path).faces, entry.name, entry.id, 1, 1, acc)

\* Lines 90-122: one turn of the loop over selected_photos.
Candidate(p) ==
    /\ pc[p] = "loop"
    /\ Step(p)
    /\ LET entry == selected[p][idx[p]] IN
       /\ results' = [results EXCEPT ![p] =
                        CandidateResults(single_encodings[p], entry, results[p])]
       /\ examined' = [examined EXCEPT ![p] =
                        IF Exists(BulkPath(entry.name)) THEN Append(@, entry.name) ELSE @]
    /\ idx' = [idx EXCEPT ![p] = @ + 1]
    /\ pc' = [pc EXCEPT ![p] = IF idx[p] = Len(selected[p]) THEN "move" ELSE "loop"]
    /\ UNCHANGED <<req, selected, single_encodings, resp, fd, clash, names, data,
                   fs0, loaded, moves, written, saved, attempt, prevResp>>

\* Lines 125-131.
Move(p) ==
    /\ pc[p] = "move"
    /\ Step(p)
    /\ moves' = [moves EXCEPT ![p] = @ + 1]
    /\ LET src == SinglePath(req[p])
           dst == ProcessedPath(req[p])
       IN
       IF MoveFails(src, dst)
       THEN /\ Finish(p, ErrWith(E_move, MoveError(src, dst)))
            /\ UNCHANGED <<names, written>>
       ELSE /\ names' = NamesAfterMove(src, dst)
            /\ written' = IF Resolve(src).path = Resolve(dst).path THEN written
                          ELSE written \cup {Resolve(src).path, Resolve(dst).path}
            /\ pc' = [pc EXCEPT ![p] = "respond"]
            /\ UNCHANGED resp
    /\ UNCHANGED <<req, selected, idx, single_encodings, results, fd, clash, data,
                   fs0, examined, loaded, saved, attempt, prevResp>>

\* Lines 133-145: the body of a 200.
Answer(res, filename) ==
    IF res # <<>>
    THEN [status |-> 200, body |-> <<"Success! Matches found.">>, has_matches |-> TRUE,
          matches |-> res, uploaded_file |-> filename]
    ELSE [status |-> 200, body |-> <<"No match found">>, has_matches |-> FALSE,
          matches |-> <<>>, uploaded_file |-> filename]

Respond(p) ==
    /\ pc[p] = "respond"
    /\ Step(p)
    /\ Finish(p, Answer(results[p], req[p].filename))
    /\ UNCHANGED <<req, selected, idx, single_encodings, results, fd, clash, names,
                   data, fs0, examined, loaded, moves, written, saved, attempt, prevResp>>

\* Lines 36-37: the client sends again a request that was turned down before
\* anything was written.
Resubmit(p) ==
    /\ pc[p] = "done"
    /\ Validation(req[p]).resp.status # 0
    /\ attempt < MaxAttempts
    /\ attempt' = attempt + 1
    /\ prevResp' = resp[p]
    /\ resp' = [resp EXCEPT ![p] = NoResp]
    /\ pc' = [pc EXCEPT ![p] = "start"]
    /\ fs0' = View
    /\ UNCHANGED <<req, selected, idx, single_encodings, results, fd, clash, names,
                   data, examined, loaded, moves, written, saved, overlap>>

Handle(p) ==
    \/ Validate(p)
    \/ SaveOpen(p)
    \/ SaveWrite(p)
    \/ Encode(p)
    \/ Candidate(p)
    \/ Move(p)
    \/ Respond(p)

Next == \E p \in Procs : Handle(p) \/ Resubmit(p)

Spec == Init /\ [][Next]_vars

\* ------------------------------------------------------- what the claims use
Done(p) == pc[p] = "done"

\* The candidate loop of request p has run to its end.
LoopDone(p) == pc[p] \in {"move", "respond"} \/ (pc[p] = "done" /\ moves[p] > 0)

\* json_data is an array of objects that each hold 'name' and 'id'.
IsArrayOfEntries(j) ==
    /\ j.t = "arr"
    /\ \A i \in 1..Len(j.items) :
          j.items[i].t = "obj" /\ {"name", "id"} \subseteq j.items[i].has

\* The file part is there, with a filename that has an accepted suffix.
FilePartAccepted(r) ==
    r.hasFile /\ r.hasJson /\ r.filename # <<>> /\ HasImageExt(r.filename)

\* The error of the first of the four checks a request fails, "" if none.
FirstFailedCheck(r) ==
    IF ~r.hasFile \/ ~r.hasJson THEN E_required
    ELSE IF r.filename = <<>> THEN E_nofile
    ELSE IF ~HasImageExt(r.filename) THEN E_type
    ELSE IF ~IsArrayOfEntries(r.json) THEN E_json
    ELSE ""

\* The faces of bulk/<name>, none when it is missing or does not load.
BulkFaces(name) ==
    IF Loads(BulkPath(name)) THEN Content(BulkPath(name)).faces ELSE <<>>

PositionIn(map, name) == CHOOSE k \in 1..Len(map) : map[k].name = name

\* A 500 whose text is the given one, ": " and the exception's own text.
Failed(r, text) ==
    r.status = 500 /\ Len(r.body) > 2 /\ r.body[1] = text /\ r.body[2] = ": "

\* A path directly inside one of the folders.
Inside(folder, at) == Len(at) = 3 /\ at[1] = D_app /\ at[2] = folder

\* C1: a json_data that is not an array of objects with 'name' and 'id' is
\* answered 400 "Invalid JSON data..." whenever the file part is acceptable.
C1_InvalidJsonIs400 ==
    \A p \in Procs :
        (Done(p) /\ FilePartAccepted(req[p]) /\ ~IsArrayOfEntries(req[p].json))
            => resp[p] = Err(400, E_json)

\* C2: a request that fails one of the four checks is answered 400 with the
\* error of the first check it fails, the folders are as they were, and
\* sending it again gives the same answer.
C2_ValidationFailsFast ==
    \A p \in Procs :
        (Done(p) /\ FirstFailedCheck(req[p]) # "")
            => /\ resp[p] = Err(400, FirstFailedCheck(req[p]))
               /\ View = fs0
               /\ (attempt > 1 => resp[p] = prevResp)

\* The (candidate, uploaded face, bulk face) triples of request p whose pair
\* passes compare_faces at 0.5 and lies strictly closer than 0.4.
Qualifying(p) ==
    UNION { LET B == BulkFaces(selected[p][k].name)
                E == req[p].bytes.faces
            IN {<<k, i, j>> : i \in 1..Len(E), j \in 1..Len(B)}
               \cap {t \in {k} \X (1..Len(E)) \X (1..Len(B)) :
                        /\ CompareFaces(B[t[3]], E[t[2]], 25000)
                        /\ FaceDistance(B[t[3]], E[t[2]]) < 20000}
          : k \in 1..Len(selected[p]) }

TripleOf(p, r) ==
    <<PositionIn(selected[p], r.matched_file), r.uploaded_face_index + 1,
      r.matched_face_index_in_bulk + 1>>

LexLess(a, b) ==
    \/ a[1] < b[1]
    \/ a[1] = b[1] /\ a[2] < b[2]
    \/ a[1] = b[1] /\ a[2] = b[2] /\ a[3] < b[3]

\* C3: once the loop is over, results holds one MatchResult per qualifying
\* triple and no other, ordered by candidate, then uploaded face, then bulk
\* face; a 200 with matches carries exactly that list.
C3_MatchesAreTheQualifyingTriples ==
    \A p \in Procs :
        LoopDone(p) =>
            LET Q == Qualifying(p)
                T == [n \in 1..Len(results[p]) |-> TripleOf(p, results[p][n])]
            IN
            /\ \A n \in 1..Len(results[p]) :
                  /\ \E k \in 1..Len(selected[p]) :
                        /\ selected[p][k].name = results[p][n].matched_file
                        /\ selected[p][k].id = results[p][n].matched_id
                  /\ T[n] \in Q
            /\ \A t \in Q : \E n \in 1..Len(results[p]) : T[n] = t
            /\ \A n, m \in 1..Len(results[p]) : n < m => LexLess(T[n], T[m])
            /\ (Done(p) /\ resp[p].status = 200 /\ results[p] # <<>>)
                  => resp[p].matches = results[p]

\* Results of two candidates; two of one candidate and one uploaded face that
\* differ in the bulk face, and two that differ in the uploaded face; a pair
\* at distance exactly 0.4 and a pair at distance 0.5 left out.
C3_Witness ==
    /\ Done(1) /\ resp[1].status = 200
    /\ \E n, m \in 1..Len(resp[1].matches) :
          n < m /\ resp[1].matches[n].matched_file # resp[1].matches[m].matched_file
    /\ \E n, m \in 1..Len(resp[1].matches) :
          /\ n < m
          /\ resp[1].matches[n].matched_file = resp[1].matches[m].matched_file
          /\ resp[1].matches[n].uploaded_face_index = resp[1].matches[m].uploaded_face_index
          /\ resp[1].matches[n].matched_face_index_in_bulk
                < resp[1].matches[m].matched_face_index_in_bulk
    /\ \E n, m \in 1..Len(resp[1].matches) :
          /\ n < m
          /\ resp[1].matches[n].matched_file = resp[1].matches[m].matched_file
          /\ resp[1].matches[n].uploaded_face_index < resp[1].matches[m].uploaded_face_index
          /\ resp[1].matches[n].matched_face_index_in_bulk
                > resp[1].matches[m].matched_face_index_in_bulk
    /\ \E k \in 1..Len(selected[1]), i \in 1..Len(req[1].bytes.faces) :
          \E j \in 1..Len(BulkFaces(selected[1][k].name)) :
             FaceDistance(BulkFaces(selected[1][k].name)[j], req[1].bytes.faces[i]) = 20000
    /\ \E k \in 1..Len(selected[1]), i \in 1..Len(req[1].bytes.faces) :
          \E j \in 1..Len(BulkFaces(selected[1][k].name)) :
             FaceDistance(BulkFaces(selected[1][k].name)[j], req[1].bytes.faces[i]) = 25000

\* C4: an upload without a face is answered 400 "No face detected...", stays
\* at single/<filename>, leaves processed/<filename> as it was, and no bulk
\* image is looked at.
C4_NoFaceLeavesUploadStaged ==
    \A p \in Procs :
        (Done(p) /\ loaded[p] # "none" /\ single_encodings[p] = <<>>)
            => /\ resp[p] = Err(400, E_noface)
               /\ IsFile(SinglePath(req[p]))
               /\ Content(SinglePath(req[p])) = req[p].bytes
               /\ LET at == Resolve(ProcessedPath(req[p])).path IN
                     /\ (at \in DOMAIN View) = (at \in DOMAIN fs0)
                     /\ at \in DOMAIN fs0 => View[at] = fs0[at]
               /\ examined[p] = <<>>

\* The candidates whose bulk image is there, loads and shows a face.
Surviving(map) == SelectSeq(map, LAMBDA e : BulkFaces(e.name) # <<>>)

\* The loop run over a whole mapping.
RECURSIVE RunOver(_, _, _, _)
RunOver(map, single, k, acc) ==
    IF k > Len(map) THEN acc
    ELSE RunOver(map, single, k + 1, CandidateResults(single, map[k], acc))

\* C5: candidates that are missing, do not load or show no face change neither
\* the status nor the other candidates' results: the answer is the one for
\* the mapping without them (a failed move apart, which is answered 500);
\* with every named bulk file absent and a face in the upload the answer is
\* 200 "No match found" and the upload is in processed/.
C5_SoftFailuresAreSkipped ==
    \A p \in Procs :
        (Done(p) /\ single_encodings[p] # <<>>) =>
            /\ resp[p].status = 200 \/ Failed(resp[p], E_move)
            /\ resp[p].status = 200
                  => resp[p] = Answer(RunOver(Surviving(selected[p]),
                                              single_encodings[p], 1, <<>>),
                                      req[p].filename)
            /\ (/\ ~Failed(resp[p], E_move)
                /\ \A k \in 1..Len(selected[p]) :
                      At(BULK_FOLDER, selected[p][k].name) \notin DOMAIN fs0)
                  => /\ resp[p] = Answer(<<>>, req[p].filename)
                     /\ \E at \in DOMAIN View :
                           Inside(D_processed, at) /\ View[at] = req[p].bytes

\* C6: shutil.move is called once, after the loop and before a 200 is built;
\* a 200 means the upload is at processed/<filename> and no longer at
\* single/<filename>; it carries "Success! Matches found." and 'matches' iff
\* results is not empty, "No match found" and no 'matches' otherwise; a failed
\* move is answered 500 without matches.
C6_MoveThenAnswer ==
    \A p \in Procs :
        /\ moves[p] <= 1
        /\ pc[p] = "respond" => moves[p] = 1
        /\ (Done(p) /\ resp[p].status = 200)
              => /\ moves[p] = 1
                 /\ IsFile(ProcessedPath(req[p]))
                 /\ Content(ProcessedPath(req[p])) = req[p].bytes
                 /\ ~IsFile(SinglePath(req[p]))
                 /\ resp[p].has_matches = (results[p] # <<>>)
                 /\ resp[p].body = (IF results[p] # <<>> THEN <<"Success! Matches found.">>
                                    ELSE <<"No match found">>)
                 /\ resp[p].matches = results[p]
                 /\ resp[p].uploaded_file = req[p].filename
        /\ (Done(p) /\ moves[p] = 1 /\ resp[p].status # 200)
              => /\ Failed(resp[p], E_move)
                 /\ resp[p].matches = <<>> /\ ~resp[p].has_matches

\* The confidence a result reports, in hundredths of a percent.
Reported(r) == r.confidence.whole * 100 + r.confidence.frac

\* What C8 says of result n of request p apart from the lower bound: its
\* face_distance is the distance of its pair, its confidence is
\* (1 - distance) * 100 as the nearest number of two decimals, with " %"
\* (distance 0.2 gives "80.00 %"), the clamp at 0 changes nothing, and the
\* confidence is at most 100.
ConfidenceIsRounded(p, n) ==
    LET r == results[p][n]
        B == BulkFaces(r.matched_file)
        E == req[p].bytes.faces
        d == r.face_distance
    IN /\ r.matched_face_index_in_bulk + 1 \in 1..Len(B)
       /\ r.uploaded_face_index + 1 \in 1..Len(E)
       /\ d = Abs(B[r.matched_face_index_in_bulk + 1] - E[r.uploaded_face_index + 1])
       /\ r.confidence.frac \in 0..99 /\ r.confidence.unit = " %"
       /\ 2 * Abs(Reported(r) * 500 - (50000 - d) * 100) <= 500
       /\ 50000 - d > 0
       /\ Confidence(d) = (50000 - d) * 100
       /\ Reported(r) <= 10000
       /\ d = 10000 => r.confidence = [whole |-> 80, frac |-> 0, unit |-> " %"]

\* C8 as claimed: a MatchResult's face_distance is the distance of its pair,
\* its confidence is (1 - distance) * 100 with two decimals and " %", the
\* clamp at 0 changes nothing, and every reported confidence is strictly
\* above 60 and at most 100.
C8_ConfidenceOfAMatch ==
    \A p \in Procs : \A n \in 1..Len(results[p]) :
        ConfidenceIsRounded(p, n) /\ Reported(results[p][n]) > 6000

\* C8 as amended: the same, but it is the confidence before formatting that
\* is strictly above 60; the reported one, rounded to two decimals, is at
\* least 60.00, and is "60.00 %" for a distance of 0.39995 or more.
C8_ReportedAtLeast60 ==
    \A p \in Procs : \A n \in 1..Len(results[p]) :
        /\ ConfidenceIsRounded(p, n)
        /\ (50000 - results[p][n].face_distance) * 100 > 60 * 50000
        /\ Reported(results[p][n]) >= 6000
        /\ (2 * results[p][n].face_distance >= 39995)
              = (Reported(results[p][n]) = 6000)

\* One answer with a match at distance 0.2 reported "80.00 %", one at 0.39996
\* reported "60.00 %" (rounded down) and one at 0.24692 reported "75.31 %"
\* (rounded up).
C8_Witness ==
    /\ Done(1) /\ resp[1].status = 200
    /\ \E n \in 1..Len(resp[1].matches) :
          /\ resp[1].matches[n].face_distance = 10000
          /\ resp[1].matches[n].confidence = [whole |-> 80, frac |-> 0, unit |-> " %"]
    /\ \E n \in 1..Len(resp[1].matches) :
          /\ resp[1].matches[n].face_distance = 19998
          /\ resp[1].matches[n].confidence = [whole |-> 60, frac |-> 0, unit |-> " %"]
    /\ \E n \in 1..Len(resp[1].matches) :
          /\ resp[1].matches[n].face_distance = 12346
          /\ resp[1].matches[n].confidence = [whole |-> 75, frac |-> 31, unit |-> " %"]

LastIndex(items, name) ==
    CHOOSE i \in 1..Len(items) :
        items[i].name = name /\ \A k \in (i + 1)..Len(items) : items[k].name # name

FirstIndex(items, name) ==
    CHOOSE i \in 1..Len(items) :
        items[i].name = name /\ \A k \in 1..(i - 1) : items[k].name # name

\* C9: a name that json_data gives several times is loaded once, at the place
\* of its first entry among the distinct names, and its MatchResults carry
\* the id of its last entry.
C9_DuplicateNamesLastIdWins ==
    \A p \in Procs :
        LoopDone(p) =>
            LET items == req[p].json.items IN
            /\ \A n \in 1..Len(results[p]) :
                  results[p][n].matched_id =
                      items[LastIndex(items, results[p][n].matched_file)].id
            /\ \A a, b \in 1..Len(examined[p]) :
                  a < b => FirstIndex(items, examined[p][a]) < FirstIndex(items, examined[p][b])
            /\ \A i \in 1..Len(items) :
                  Exists(BulkPath(items[i].name))
                      => \E a \in 1..Len(examined[p]) : examined[p][a] = items[i].name
            /\ \A a \in 1..Len(examined[p]) :
                  \E i \in 1..Len(items) : examined[p][a] = items[i].name

\* a.jpg given first and last with different ids, b.jpg between them: a.jpg is
\* loaded first and once, and matched with its last id.
C9_Witness ==
    /\ Done(1) /\ resp[1].status = 200
    /\ Len(req[1].json.items) = 3
    /\ req[1].json.items[1].name = N_a /\ req[1].json.items[3].name = N_a
    /\ req[1].json.items[1].id # req[1].json.items[3].id
    /\ examined[1] = <<N_a, N_b>>
    /\ \E n \in 1..Len(resp[1].matches) :
          /\ resp[1].matches[n].matched_file = N_a
          /\ resp[1].matches[n].matched_id = req[1].json.items[3].id

\* C10: no request changes bulk/, and the handler writes only directly
\* inside single/ and processed/.
C10_BulkIsReadOnly ==
    /\ \A at \in DOMAIN View \cup DOMAIN fs0 :
          Inside(D_bulk, at)
              => at \in DOMAIN View /\ at \in DOMAIN fs0 /\ View[at] = fs0[at]
    /\ \A at \in written : Inside(D_single, at) \/ Inside(D_processed, at)

\* ------------------------------------------------------ two requests at once
\* Two requests that pass validation and carry the same filename, with
\* different bytes that each show a face.
ConcNames == {F_a, F_abs_tmp}
ConcJson == {Arr(<<Entry(N_a, 1)>>), Arr(<<Entry(N_a, 1), Entry(N_b, 2)>>)}
ConcEnvs == {e \in Envs : Len(e) \in {1, 3}}

ConcFaces1 == {<<5000>>, <<5000, 0>>}
ConcFaces2 == {<<0>>, <<0, 5000>>}

InitConc ==
    \E fn \in ConcNames, j \in ConcJson, e \in ConcEnvs :
    \E f1 \in ConcFaces1, f2 \in ConcFaces2 :
        InitWith([p \in Procs |-> Req(TRUE, TRUE, fn, j,
                                      Img(IF p = 1 THEN "u1" ELSE "u2",
                                          IF p = 1 THEN f1 ELSE f2))],
                 e, Procs)

NextConc == \E p \in Procs : Handle(p)

SpecConc == InitConc /\ [][NextConc]_vars

BothDone == Done(1) /\ Done(2)

LastSaver == saved[Len(saved)]

\* What the original claim promises of each request and of the folder.
Undisturbed(p) ==
    /\ resp[p].status = 200
    /\ loaded[p] = req[p].bytes.id
    /\ single_encodings[p] = req[p].bytes.faces

LastWriterWins ==
    /\ saved # <<>>
    /\ IsFile(ProcessedPath(req[1]))
    /\ Content(ProcessedPath(req[1])) = req[LastSaver].bytes

\* C7 as claimed: under every interleaving both requests are answered 200 with
\* matches from their own bytes, and processed/<filename> ends with the bytes
\* of the request that saved last.
C7_RaceIsSilent ==
    BothDone => Undisturbed(1) /\ Undisturbed(2) /\ LastWriterWins

\* The bytes request p decoded as its upload were those of src.
LoadedFrom(p, src) == loaded[p] = src.id /\ single_encodings[p] = src.faces

\* C7 as amended: nothing detects the conflict, but it does not pass unnoticed
\* under every interleaving.  A request is answered 200, or 500 because the
\* file it saved cannot be loaded or moved any more, or 400 because the
\* mixture it loads shows no face.  A request answered 200 computed its
\* matches from what single/<filename> held when it loaded it: its own bytes,
\* the other request's, or a mixture.  Once both are answered and one of them
\* with 200, processed/<filename> holds what the save that completed last
\* left: that request's bytes, or possibly a mixture when the other request
\* had the file open for writing during that save.  Requests that do not
\* overlap are both answered 200 with matches from their own bytes.
C7_LastSaveWins ==
    /\ \A p \in Procs :
          Done(p) => \/ resp[p].status = 200
                     \/ Failed(resp[p], E_process)
                     \/ Failed(resp[p], E_move)
                     \/ resp[p] = Err(400, E_noface) /\ loaded[p] = "mixed"
    /\ \A p \in Procs :
          (Done(p) /\ resp[p].status = 200)
              => \/ \E q \in Procs : LoadedFrom(p, req[q].bytes)
                 \/ loaded[p] = "mixed"
    /\ (BothDone /\ \E p \in Procs : resp[p].status = 200)
          => /\ IsFile(ProcessedPath(req[1]))
             /\ \/ Content(ProcessedPath(req[1])) = req[LastSaver].bytes
                \/ /\ clash[LastSaver]
                   /\ Content(ProcessedPath(req[1])).id = "mixed"
    /\ (BothDone /\ ~overlap) => Undisturbed(1) /\ Undisturbed(2) /\ LastWriterWins

\* The requests overlapped, the one that saved last was answered 200, and
\* processed/<filename> holds a mixture that decodes; the other request was
\* answered 200 as well.
C7_Witness ==
    /\ BothDone /\ overlap
    /\ resp[1].status = 200 /\ resp[2].status = 200
    /\ req[1].bytes.faces # req[2].bytes.faces
    /\ Content(ProcessedPath(req[1])).id = "mixed"
    /\ Content(ProcessedPath(req[1])).ok

=============================================================================
